---- MODULE Spec2Model ----
(***************************************************************************)
(* imgdiff: alignment search and difference highlighting.                  *)
(*                                                                         *)
(* A model of src/imgdiff.py: main(), simple_highlight()/best_diff(),      *)
(* slow_highlight(), the Progress timer, diff(), diff_badness() and        *)
(* tweak_diff(), together with the PIL primitives they call.               *)
(***************************************************************************)
EXTENDS Integers, Sequences, FiniteSets

(***************************************************************************)
(* Bounds of the model.                                                    *)
(***************************************************************************)
MaxW == 2
MaxH == 2
MaxTotal == 4
MaxDone == 2
MaxStrip == 5

(***************************************************************************)
(* Program constants.                                                      *)
(***************************************************************************)
DefaultDelay == 1
DefaultTimeout == 10
OptTimeoutDefault == 10
OptOpacityDefault == 64
SimpleFilterSize == 9
SlowStepFilterSize == 7
SlowFinalFilterSize == 5

\* Clock readings (seconds since the epoch of the run): one representative of
\* the intervals cut out by the thresholds the code compares against: below
\* every delay and timeout, above the delay and below the default timeout,
\* above every one of them.
Times == {0, DefaultDelay + 1, DefaultTimeout + 1}

None == [size |-> <<-1, -1>>, px |-> <<>>]

(***************************************************************************)
(* Pixels and images.  An image is a size and a function from its cells to *)
(* pixel values: RGB triples for mode "RGB", 0..255 for mode "L".          *)
(***************************************************************************)
Black == <<0, 0, 0>>
NearBlack == <<0, 0, 1>>
White == <<255, 255, 255>>
Colours == {Black, NearBlack, White}
BgColor == White

Cells(w, h) == (0 .. w - 1) \X (0 .. h - 1)

Abs(n) == IF n < 0 THEN -n ELSE n
Min2(a, b) == IF a < b THEN a ELSE b
Max2(a, b) == IF a > b THEN a ELSE b
SetMax(S) == CHOOSE m \in S : \A n \in S : n <= m

\* Image.new(mode, size, color)
ImageNew(w, h, color) == [size |-> <<w, h>>, px |-> [c \in Cells(w, h) |-> color]]

\* Image.crop((left, upper, right, lower)); the callers stay inside the image
ImageCrop(img, left, upper, right, lower) ==
    [size |-> <<right - left, lower - upper>>,
     px |-> [c \in Cells(right - left, lower - upper) |->
                img.px[<<c[1] + left, c[2] + upper>>]]]

\* Image.paste(src, (x0, y0)): src overwrites the cells of dst it covers
ImagePaste(dst, src, x0, y0) ==
    [size |-> dst.size,
     px |-> [c \in DOMAIN dst.px |->
                IF /\ c[1] >= x0 /\ c[1] < x0 + src.size[1]
                   /\ c[2] >= y0 /\ c[2] < y0 + src.size[2]
                THEN src.px[<<c[1] - x0, c[2] - y0>>]
                ELSE dst.px[c]]]

\* ImageChops.difference on RGB images: per-channel absolute difference
ChopsDifference(a, b) ==
    [size |-> a.size,
     px |-> [c \in DOMAIN a.px |->
                <<Abs(a.px[c][1] - b.px[c][1]),
                  Abs(a.px[c][2] - b.px[c][2]),
                  Abs(a.px[c][3] - b.px[c][3])>>]]

\* Image.convert('L') of an RGB image: L = R*299/1000 + G*587/1000 + B*114/1000
Luma(rgb) == (rgb[1] * 299 + rgb[2] * 587 + rgb[3] * 114) \div 1000
ConvertL(img) == [size |-> img.size, px |-> [c \in DOMAIN img.px |-> Luma(img.px[c])]]

\* ImageChops.lighter, the cell-wise maximum, in the place of darker
ChopsDarker_lighter(a, b) ==
    [size |-> a.size, px |-> [c \in DOMAIN a.px |-> Max2(a.px[c], b.px[c])]]

\* ImageChops.darker: cell-wise minimum
ChopsDarker(a, b) ==
    [size |-> a.size, px |-> [c \in DOMAIN a.px |-> Min2(a.px[c], b.px[c])]]

\* ImageChops.offset(img, dx, dy): shift with wrap-around
ChopsOffset(img, dx, dy) ==
    [size |-> img.size,
     px |-> [c \in DOMAIN img.px |->
                img.px[<<(c[1] - dx) % img.size[1], (c[2] - dy) % img.size[2]>>]]]

\* Image.filter(ImageFilter.MaxFilter(size)): maximum over the size x size
\* window centred on the cell (the window is cut at the image's edges)
MaxFilter(img, size) ==
    LET r == size \div 2
    IN [size |-> img.size,
        px |-> [c \in DOMAIN img.px |->
                   SetMax({img.px[d] : d \in {e \in DOMAIN img.px :
                                                 /\ Abs(e[1] - c[1]) <= r
                                                 /\ Abs(e[2] - c[2]) <= r}})]]

(***************************************************************************)
(* tweak_diff, diff, diff_badness                                          *)
(***************************************************************************)
\* tweak_point with the division by 256 instead of 255
tweak_point_256(i, opacity) == opacity + (i * (255 - opacity)) \div 256

tweak_point(i, opacity) == opacity + (i * (255 - opacity)) \div 255

tweak_diff(d, opacity) ==
    [size |-> d.size, px |-> [c \in DOMAIN d.px |-> tweak_point(d.px[c], opacity)]]

diff(i1, i2, x1, y1, x2, y2) ==
    LET w == Min2(i1.size[1], i2.size[1])
        h == Min2(i1.size[2], i2.size[2])
    IN ConvertL(ChopsDifference(ImageCrop(i1, x1, y1, x1 + w, y1 + h),
                                ImageCrop(i2, x2, y2, x2 + w, y2 + h)))

\* Image.histogram(): the number of cells holding value i
Histogram(d, i) == Cardinality({c \in DOMAIN d.px : d.px[c] = i})

RECURSIVE SumSet(_, _)
SumSet(S, d) ==
    IF S = {} THEN 0
    ELSE LET i == CHOOSE j \in S : TRUE
         IN i * Histogram(d, i) + SumSet(S \ {i}, d)

RECURSIVE SumSetFromOne(_, _)
SumSetFromOne(S, d) ==
    IF S = {} THEN 0
    ELSE LET i == CHOOSE j \in S : TRUE
         IN (i + 1) * Histogram(d, i) + SumSetFromOne(S \ {i}, d)

\* diff_badness with the histogram bins numbered from 1
diff_badness_from_one(d) == SumSetFromOne({d.px[c] : c \in DOMAIN d.px}, d)

\* sum(i * n for i, n in enumerate(diff.histogram())); the bins that hold no
\* cell contribute 0 and are skipped
diff_badness(d) == SumSet({d.px[c] : c \in DOMAIN d.px}, d)

(***************************************************************************)
(* State.                                                                  *)
(***************************************************************************)
VARIABLES
    img1, img2,     \* the two input images, as opened and converted by main()
    opts,           \* the parsed options: highlight mode, timeout, opacity
    isatty,         \* sys.stderr.isatty()
    pc,             \* the position of the program
    now,            \* the latest reading of time.time()
    p,              \* the Progress object
    stream,         \* what has been written to p.stream, one entry per write
    outcome,        \* "Running", "Completed" (done() reached from next()) or
                    \* "TimedOut" (next() raised Timeout)
    elapsed,        \* time.time() - started as measured by the last timeout check
    x, y,           \* the loop variables of the sweep
    best, best_value, best_pos,     \* best_diff's locals
    pimg1, pimg2, acc,              \* slow_highlight's canvases and its diff
    shift,          \* the net shift ImageChops.offset has given each canvas so far
    polled,         \* the offsets for which p.next() has been called, in order
    compared,       \* the offsets whose comparison has been computed, in order
    mask1, mask2,   \* the masks main() received
    tiled,          \* the masks tile_images() was called with
    dones,          \* explicit done() calls made by the Progress test driver
    tw              \* tweak_diff's argument and result

vars == <<img1, img2, opts, isatty, pc, now, p, stream, outcome, elapsed, x, y,
          best, best_value, best_pos, pimg1, pimg2, shift, acc, polled, compared,
          mask1, mask2,
          tiled, dones, tw>>

imgVars == <<img1, img2, opts, isatty>>
progressVars == <<now, p, stream, outcome, elapsed>>
sweepVars == <<x, y, best, best_value, best_pos, pimg1, pimg2, shift, acc, polled,
               compared>>
resultVars == <<mask1, mask2, tiled>>

(***************************************************************************)
(* class Progress                                                          *)
(***************************************************************************)
\* Progress.__init__(total, delay, timeout) at clock reading t
Progress_init(total, delay, timeout, t, tty) ==
    [started |-> t, delay |-> delay, total |-> total, position |-> 0,
     shown |-> FALSE, timeout |-> timeout, isatty |-> tty]

NoProgress == Progress_init(0, 0, 0, 0, FALSE)

\* The texts written to the stream
CR == <<"\r">>
NL == <<"\n">>
TimeoutMsg(pr) == <<"Highlighting takes too long: timed out after %.0f seconds", pr.timeout>>
ProgressMsg(pr) ==
    <<"%d%% (%d out of %d %s)", (pr.position * 100) \div pr.total, pr.position, pr.total>>

\* _say_if_terminal that writes whatever the stream is
_say_if_terminal_always(pr, st, msg) ==
    [p |-> [pr EXCEPT !.shown = TRUE],
     stream |-> (IF pr.isatty THEN Append(st, CR) ELSE st) \o <<msg>>]

\* Progress._say_if_terminal(msg)
_say_if_terminal(pr, st, msg) ==
    IF pr.isatty
    THEN [p |-> [pr EXCEPT !.shown = TRUE], stream |-> st \o <<CR, msg>>]
    ELSE [p |-> pr, stream |-> st]

\* Progress._say(msg)
_say(pr, st, msg) ==
    [p |-> [pr EXCEPT !.shown = TRUE],
     stream |-> (IF pr.isatty THEN Append(st, CR) ELSE st) \o <<msg>>]

\* done() that leaves shown set
done_keeps_shown(pr, st) ==
    IF pr.shown
    THEN LET s == _say(pr, st, NL)
         IN [p |-> s.p, stream |-> s.stream]
    ELSE [p |-> pr, stream |-> st]

\* Progress.done()
done(pr, st) ==
    IF pr.shown
    THEN LET s == _say(pr, st, NL)
         IN [p |-> [s.p EXCEPT !.shown = FALSE], stream |-> s.stream]
    ELSE [p |-> pr, stream |-> st]

\* next() that writes the timeout message and goes on instead of raising
next_noraise(pr, st, t1, t2) ==
    LET p1 == [pr EXCEPT !.position = @ + 1]
        s0 == IF p1.timeout # 0 /\ t1 - p1.started > p1.timeout
              THEN _say(p1, st, TimeoutMsg(p1))
              ELSE [p |-> p1, stream |-> st]
        s == IF t2 - p1.started > p1.delay
             THEN _say_if_terminal(s0.p, s0.stream, ProgressMsg(p1))
             ELSE s0
    IN IF s.p.position = s.p.total
       THEN LET f == done(s.p, s.stream)
            IN [p |-> f.p, stream |-> f.stream, raised |-> FALSE, completed |-> TRUE]
       ELSE [p |-> s.p, stream |-> s.stream, raised |-> FALSE, completed |-> FALSE]

\* next() that reports as soon as the delay is reached
next_delay_reached(pr, st, t1, t2) ==
    LET p1 == [pr EXCEPT !.position = @ + 1]
    IN IF p1.timeout # 0 /\ t1 - p1.started > p1.timeout
       THEN LET s == _say(p1, st, TimeoutMsg(p1))
            IN [p |-> s.p, stream |-> s.stream, raised |-> TRUE, completed |-> FALSE]
       ELSE LET s == IF t2 - p1.started >= p1.delay
                     THEN _say_if_terminal(p1, st, ProgressMsg(p1))
                     ELSE [p |-> p1, stream |-> st]
            IN IF s.p.position = s.p.total
               THEN LET f == done(s.p, s.stream)
                    IN [p |-> f.p, stream |-> f.stream,
                        raised |-> FALSE, completed |-> TRUE]
               ELSE [p |-> s.p, stream |-> s.stream,
                     raised |-> FALSE, completed |-> FALSE]

\* Progress.next(), with t1 and t2 the two readings of time.time() it makes.
\* raised: the call raised Timeout; completed: the call reached done().
next(pr, st, t1, t2) ==
    LET p1 == [pr EXCEPT !.position = @ + 1]
    IN IF p1.timeout # 0 /\ t1 - p1.started > p1.timeout
       THEN LET s == _say(p1, st, TimeoutMsg(p1))
            IN [p |-> s.p, stream |-> s.stream, raised |-> TRUE, completed |-> FALSE]
       ELSE LET s == IF t2 - p1.started > p1.delay
                     THEN _say_if_terminal(p1, st, ProgressMsg(p1))
                     ELSE [p |-> p1, stream |-> st]
            IN IF s.p.position = s.p.total
               THEN LET f == done(s.p, s.stream)
                    IN [p |-> f.p, stream |-> f.stream,
                        raised |-> FALSE, completed |-> TRUE]
               ELSE [p |-> s.p, stream |-> s.stream,
                     raised |-> FALSE, completed |-> FALSE]

\* One call of p.next() by a caller: the clock readings are inputs
CallNext(t1, t2) ==
    LET r == next(p, stream, t1, t2)
    IN /\ p' = r.p
       /\ stream' = r.stream
       /\ elapsed' = t1 - p.started
       /\ now' = IF r.raised THEN t1 ELSE t2
       /\ outcome' = IF r.raised THEN "TimedOut"
                     ELSE IF r.completed THEN "Completed" ELSE outcome

(***************************************************************************)
(* The driver of tests.py, TestProgress: construct a Progress, call next() *)
(* up to total times (stopping at Timeout), then call done().              *)
(***************************************************************************)
TweakIdle == [i |-> 0, opacity |-> 0, out |-> -1]

\* The net shifts of canvas 1 and canvas 2, and one more ImageChops.offset of
\* canvas n by (dx, dy)
NoShift == <<<<0, 0>>, <<0, 0>>>>
Shifted(sh, n, dx, dy) == [sh EXCEPT ![n] = <<@[1] + dx, @[2] + dy>>]

IdleSweep ==
    /\ x = 0 /\ y = 0
    /\ best = None /\ best_value = 0 /\ best_pos = <<>>
    /\ pimg1 = None /\ pimg2 = None /\ acc = None
    /\ shift = NoShift
    /\ polled = <<>> /\ compared = <<>>

IdleResult == mask1 = None /\ mask2 = None /\ tiled = <<>>

InitProgress ==
    /\ img1 = None /\ img2 = None
    /\ opts = [highlight |-> "none", timeout |-> OptTimeoutDefault,
               opacity |-> OptOpacityDefault]
    /\ isatty \in BOOLEAN
    /\ pc = "test"
    /\ now = 0
    /\ \E total \in 1 .. MaxTotal, delay \in {0, DefaultDelay},
          timeout \in {0, 1, DefaultTimeout} :
          p = Progress_init(total, delay, timeout, 0, isatty)
    /\ stream = <<>>
    /\ outcome = "Running"
    /\ elapsed = 0
    /\ IdleSweep /\ IdleResult
    /\ dones = 0
    /\ tw = TweakIdle

TestNext ==
    /\ pc = "test"
    /\ outcome = "Running"
    /\ p.position < p.total
    /\ \E t1 \in Times, t2 \in Times :
          /\ now <= t1 /\ t1 <= t2
          /\ CallNext(t1, t2)
    /\ UNCHANGED <<imgVars, pc, sweepVars, resultVars, dones, tw>>

TestDone ==
    /\ pc = "test"
    /\ outcome # "Running"
    /\ dones < MaxDone
    /\ LET r == done(p, stream)
       IN p' = r.p /\ stream' = r.stream
    /\ dones' = dones + 1
    /\ UNCHANGED <<imgVars, pc, now, outcome, elapsed, sweepVars, resultVars, tw>>

NextProgress == TestNext \/ TestDone

SpecProgress == InitProgress /\ [][NextProgress]_vars

(***************************************************************************)
(* main(), simple_highlight() with best_diff(), slow_highlight()           *)
(***************************************************************************)
\* Images main() may open, of every size up to MaxW x MaxH (zero sizes
\* included): fields of one colour, and black fields with at most one pixel of
\* another colour
Fields(w, h) == {ImageNew(w, h, col) : col \in {Black, White}}

SparseImages(w, h) ==
    {ImageNew(w, h, Black)} \cup
    {[ImageNew(w, h, Black) EXCEPT !.px[c] = col] :
        c \in Cells(w, h), col \in Colours \ {Black}}

\* One-row images of every width up to MaxStrip, of black and white pixels:
\* wide enough for the 7-pixel window not to span the whole canvas
Strips == UNION {{[size |-> <<w, 1>>, px |-> f] : f \in [Cells(w, 1) -> {Black, White}]} :
                    w \in 1 .. MaxStrip}

FieldImages == UNION {Fields(w, h) : w \in 0 .. MaxW, h \in 0 .. MaxH}
Images == UNION {SparseImages(w, h) : w \in 0 .. MaxW, h \in 0 .. MaxH}

\* xr, yr of best_diff and slow_highlight
xr == Abs(img1.size[1] - img2.size[1]) + 1
yr == Abs(img1.size[2] - img2.size[2]) + 1

\* Alignment with the two branches of each test exchanged
Alignment_exchanged(xx, yy) ==
    LET x1 == IF img1.size[1] > img2.size[1] THEN 0 ELSE xx
        x2 == IF img1.size[1] > img2.size[1] THEN xx ELSE 0
        y1 == IF img1.size[2] > img2.size[2] THEN 0 ELSE yy
        y2 == IF img1.size[2] > img2.size[2] THEN yy ELSE 0
    IN <<<<x1, y1>>, <<x2, y2>>>>

\* The alignment ((x1, y1), (x2, y2)) best_diff builds from its loop variables
Alignment(xx, yy) ==
    LET x1 == IF img1.size[1] > img2.size[1] THEN xx ELSE 0
        x2 == IF img1.size[1] > img2.size[1] THEN 0 ELSE xx
        y1 == IF img1.size[2] > img2.size[2] THEN yy ELSE 0
        y2 == IF img1.size[2] > img2.size[2] THEN 0 ELSE yy
    IN <<<<x1, y1>>, <<x2, y2>>>>

\* The state when main() has parsed its options and opened the two images
Start ==
    /\ pc = "main"
    /\ now = 0
    /\ p = NoProgress
    /\ stream = <<>>
    /\ outcome = "Running"
    /\ elapsed = 0
    /\ IdleSweep /\ IdleResult
    /\ dones = 0
    /\ tw = TweakIdle

\* Every combination of the options and of the terminal, on fields of one colour
Init ==
    /\ img1 \in FieldImages /\ img2 \in FieldImages
    /\ opts \in [highlight : {"none", "simple", "slow"},
                 timeout : {0, 1},
                 opacity : {0, OptOpacityDefault}]
    /\ isatty \in BOOLEAN
    /\ Start

\* Every pair of sparse images, with the default timeout and stderr redirected
InitPixels ==
    /\ img1 \in Images /\ img2 \in Images
    /\ opts \in [highlight : {"none", "simple", "slow"},
                 timeout : {OptTimeoutDefault},
                 opacity : {0, OptOpacityDefault}]
    /\ isatty = FALSE
    /\ Start

\* A one-row image against a one-row field of one colour, with the default
\* options and stderr redirected
InitStrips ==
    /\ img1 \in Strips
    /\ img2 \in {ImageNew(w, 1, c) : w \in 1 .. MaxStrip, c \in {Black, White}}
    /\ opts \in [highlight : {"none", "simple", "slow"},
                 timeout : {OptTimeoutDefault},
                 opacity : {OptOpacityDefault}]
    /\ isatty = FALSE
    /\ Start

\* main(): neither -H nor -S
main_plain ==
    /\ pc = "main"
    /\ opts.highlight = "none"
    /\ mask1' = None /\ mask2' = None
    /\ pc' = "tile"
    /\ UNCHANGED <<imgVars, progressVars, sweepVars, tiled, dones, tw>>

\* best_diff_begin with the total xr + yr
best_diff_begin_sum ==
    /\ pc = "main"
    /\ opts.highlight = "simple"
    /\ best' = None
    /\ best_value' = 255 * Min2(img1.size[1], img2.size[1])
                         * Min2(img1.size[2], img2.size[2]) + 1
    /\ p' = Progress_init(xr + yr, DefaultDelay, DefaultTimeout, now, isatty)
    /\ x' = 0 /\ y' = 0
    /\ pc' = "best_poll"
    /\ UNCHANGED <<imgVars, now, stream, outcome, elapsed, best_pos, pimg1, pimg2, shift,
                   acc, polled, compared, resultVars, dones, tw>>

\* main() -> simple_highlight() -> best_diff(), up to the loop
best_diff_begin ==
    /\ pc = "main"
    /\ opts.highlight = "simple"
    /\ best' = None
    /\ best_value' = 255 * Min2(img1.size[1], img2.size[1])
                         * Min2(img1.size[2], img2.size[2]) + 1
    /\ p' = Progress_init(xr * yr, DefaultDelay, DefaultTimeout, now, isatty)
    /\ x' = 0 /\ y' = 0
    /\ pc' = "best_poll"
    /\ UNCHANGED <<imgVars, now, stream, outcome, elapsed, best_pos, pimg1, pimg2, shift,
                   acc, polled, compared, resultVars, dones, tw>>

\* best_diff(): the alignment of this iteration and p.next(); a Timeout
\* leaves best_diff and is caught by simple_highlight, which returns None, None
best_diff_poll ==
    /\ pc = "best_poll"
    /\ \E t1 \in Times, t2 \in Times :
          /\ now <= t1 /\ t1 <= t2
          /\ CallNext(t1, t2)
    /\ polled' = Append(polled, <<x, y>>)
    /\ IF outcome' = "TimedOut"
       THEN mask1' = None /\ mask2' = None /\ pc' = "tile"
       ELSE UNCHANGED <<mask1, mask2>> /\ pc' = "best_compare"
    /\ UNCHANGED <<imgVars, x, y, best, best_value, best_pos, pimg1, pimg2, shift, acc,
                   compared, tiled, dones, tw>>

\* best_diff_compare that keeps the last of the equally good alignments
best_diff_compare_last ==
    /\ pc = "best_compare"
    /\ LET pos == Alignment(x, y)
           this == diff(img1, img2, pos[1][1], pos[1][2], pos[2][1], pos[2][2])
           this_value == diff_badness(this)
       IN /\ IF this_value <= best_value
             THEN best' = this /\ best_value' = this_value /\ best_pos' = pos
             ELSE UNCHANGED <<best, best_value, best_pos>>
          /\ compared' = Append(compared, pos)
    /\ IF y + 1 < yr
       THEN x' = x /\ y' = y + 1 /\ pc' = "best_poll"
       ELSE /\ x' = x + 1 /\ y' = 0
            /\ pc' = IF x + 1 < xr THEN "best_poll" ELSE "simple_finish"
    /\ UNCHANGED <<imgVars, progressVars, pimg1, pimg2, shift, acc, polled, resultVars,
                   dones, tw>>

\* best_diff(): diff(), diff_badness(), the update of best, the loop step
best_diff_compare ==
    /\ pc = "best_compare"
    /\ LET pos == Alignment(x, y)
           this == diff(img1, img2, pos[1][1], pos[1][2], pos[2][1], pos[2][2])
           this_value == diff_badness(this)
       IN /\ IF this_value < best_value
             THEN best' = this /\ best_value' = this_value /\ best_pos' = pos
             ELSE UNCHANGED <<best, best_value, best_pos>>
          /\ compared' = Append(compared, pos)
    /\ IF y + 1 < yr
       THEN x' = x /\ y' = y + 1 /\ pc' = "best_poll"
       ELSE /\ x' = x + 1 /\ y' = 0
            /\ pc' = IF x + 1 < xr THEN "best_poll" ELSE "simple_finish"
    /\ UNCHANGED <<imgVars, progressVars, pimg1, pimg2, shift, acc, polled, resultVars,
                   dones, tw>>

\* simple_highlight_finish with the two paste positions exchanged
simple_highlight_finish_swapped ==
    /\ pc = "simple_finish"
    /\ LET d == tweak_diff(MaxFilter(best, SimpleFilterSize), opts.opacity)
       IN /\ mask1' = ImagePaste(ImageNew(img1.size[1], img1.size[2], 255), d,
                                 best_pos[2][1], best_pos[2][2])
          /\ mask2' = ImagePaste(ImageNew(img2.size[1], img2.size[2], 255), d,
                                 best_pos[1][1], best_pos[1][2])
    /\ pc' = "tile"
    /\ UNCHANGED <<imgVars, progressVars, sweepVars, tiled, dones, tw>>

\* simple_highlight() after best_diff() has returned
simple_highlight_finish ==
    /\ pc = "simple_finish"
    /\ LET d == tweak_diff(MaxFilter(best, SimpleFilterSize), opts.opacity)
       IN /\ mask1' = ImagePaste(ImageNew(img1.size[1], img1.size[2], 255), d,
                                 best_pos[1][1], best_pos[1][2])
          /\ mask2' = ImagePaste(ImageNew(img2.size[1], img2.size[2], 255), d,
                                 best_pos[2][1], best_pos[2][2])
    /\ pc' = "tile"
    /\ UNCHANGED <<imgVars, progressVars, sweepVars, tiled, dones, tw>>

\* main() -> slow_highlight(), up to the loop
slow_highlight_begin ==
    /\ pc = "main"
    /\ opts.highlight = "slow"
    /\ LET W == Max2(img1.size[1], img2.size[1])
           H == Max2(img1.size[2], img2.size[2])
       IN /\ pimg1' = ImagePaste(ImageNew(W, H, BgColor), img1, 0, 0)
          /\ pimg2' = ImagePaste(ImageNew(W, H, BgColor), img2, 0, 0)
          /\ acc' = ImageNew(W, H, 255)
    /\ shift' = NoShift
    /\ p' = Progress_init(xr * yr, DefaultDelay, DefaultTimeout, now, isatty)
    /\ x' = 0 /\ y' = 0
    /\ pc' = "slow_poll"
    /\ UNCHANGED <<imgVars, now, stream, outcome, elapsed, best, best_value,
                   best_pos, polled, compared, resultVars, dones, tw>>

\* slow_highlight_poll whose Timeout handler falls through to the masks of
\* the accumulator swept so far
slow_highlight_poll_partial ==
    /\ pc = "slow_poll"
    /\ \E t1 \in Times, t2 \in Times :
          /\ now <= t1 /\ t1 <= t2
          /\ CallNext(t1, t2)
    /\ polled' = Append(polled, <<x, y>>)
    /\ pc' = IF outcome' = "TimedOut" THEN "slow_finish" ELSE "slow_compare"
    /\ UNCHANGED <<imgVars, x, y, best, best_value, best_pos, pimg1, pimg2, shift, acc,
                   compared, mask1, mask2, tiled, dones, tw>>

\* slow_highlight(): p.next(); a Timeout is caught and None, None returned
slow_highlight_poll ==
    /\ pc = "slow_poll"
    /\ \E t1 \in Times, t2 \in Times :
          /\ now <= t1 /\ t1 <= t2
          /\ CallNext(t1, t2)
    /\ polled' = Append(polled, <<x, y>>)
    /\ IF outcome' = "TimedOut"
       THEN mask1' = None /\ mask2' = None /\ pc' = "tile"
       ELSE UNCHANGED <<mask1, mask2>> /\ pc' = "slow_compare"
    /\ UNCHANGED <<imgVars, x, y, best, best_value, best_pos, pimg1, pimg2, shift, acc,
                   compared, tiled, dones, tw>>

\* slow_highlight_compare that takes back yr - 1 of the yr steps along y
slow_highlight_compare_short_reset ==
    /\ pc = "slow_compare"
    /\ LET this == MaxFilter(ConvertL(ChopsDifference(pimg1, pimg2)),
                             SlowStepFilterSize)
           tall == img1.size[2] > img2.size[2]
           wide == img1.size[1] > img2.size[1]
           a1 == IF tall THEN pimg1 ELSE ChopsOffset(pimg1, 0, 1)
           a2 == IF tall THEN ChopsOffset(pimg2, 0, 1) ELSE pimg2
           sa == Shifted(shift, IF tall THEN 2 ELSE 1, 0, 1)
           b1 == IF tall THEN a1 ELSE ChopsOffset(a1, 0, -(yr - 1))
           b2 == IF tall THEN ChopsOffset(a2, 0, -(yr - 1)) ELSE a2
           sb == Shifted(sa, IF tall THEN 2 ELSE 1, 0, -(yr - 1))
           c1 == IF wide THEN b1 ELSE ChopsOffset(b1, 1, 0)
           c2 == IF wide THEN ChopsOffset(b2, 1, 0) ELSE b2
           sc == Shifted(sb, IF wide THEN 2 ELSE 1, 1, 0)
       IN /\ acc' = ChopsDarker(acc, this)
          /\ compared' = Append(compared, <<x, y>>)
          /\ IF y + 1 < yr
             THEN /\ pimg1' = a1 /\ pimg2' = a2 /\ shift' = sa
                  /\ x' = x /\ y' = y + 1 /\ pc' = "slow_poll"
             ELSE /\ pimg1' = c1 /\ pimg2' = c2 /\ shift' = sc
                  /\ x' = x + 1 /\ y' = 0
                  /\ pc' = IF x + 1 < xr THEN "slow_poll" ELSE "slow_finish"
    /\ UNCHANGED <<imgVars, progressVars, best, best_value, best_pos, polled,
                   resultVars, dones, tw>>

\* slow_highlight(): the comparison of the canvases, the re-shift along y and,
\* after the last y, the reset of the y shift and the shift along x
slow_highlight_compare ==
    /\ pc = "slow_compare"
    /\ LET this == MaxFilter(ConvertL(ChopsDifference(pimg1, pimg2)),
                             SlowStepFilterSize)
           tall == img1.size[2] > img2.size[2]
           wide == img1.size[1] > img2.size[1]
           a1 == IF tall THEN pimg1 ELSE ChopsOffset(pimg1, 0, 1)
           a2 == IF tall THEN ChopsOffset(pimg2, 0, 1) ELSE pimg2
           sa == Shifted(shift, IF tall THEN 2 ELSE 1, 0, 1)
           b1 == IF tall THEN a1 ELSE ChopsOffset(a1, 0, -yr)
           b2 == IF tall THEN ChopsOffset(a2, 0, -yr) ELSE a2
           sb == Shifted(sa, IF tall THEN 2 ELSE 1, 0, -yr)
           c1 == IF wide THEN b1 ELSE ChopsOffset(b1, 1, 0)
           c2 == IF wide THEN ChopsOffset(b2, 1, 0) ELSE b2
           sc == Shifted(sb, IF wide THEN 2 ELSE 1, 1, 0)
       IN /\ acc' = ChopsDarker(acc, this)
          /\ compared' = Append(compared, <<x, y>>)
          /\ IF y + 1 < yr
             THEN /\ pimg1' = a1 /\ pimg2' = a2 /\ shift' = sa
                  /\ x' = x /\ y' = y + 1 /\ pc' = "slow_poll"
             ELSE /\ pimg1' = c1 /\ pimg2' = c2 /\ shift' = sc
                  /\ x' = x + 1 /\ y' = 0
                  /\ pc' = IF x + 1 < xr THEN "slow_poll" ELSE "slow_finish"
    /\ UNCHANGED <<imgVars, progressVars, best, best_value, best_pos, polled,
                   resultVars, dones, tw>>

\* slow_highlight() after the sweep
slow_highlight_finish ==
    /\ pc = "slow_finish"
    /\ LET d == MaxFilter(acc, SlowFinalFilterSize)
       IN /\ mask1' = tweak_diff(ImageCrop(d, 0, 0, img1.size[1], img1.size[2]),
                                 opts.opacity)
          /\ mask2' = tweak_diff(ImageCrop(d, 0, 0, img2.size[1], img2.size[2]),
                                 opts.opacity)
    /\ pc' = "tile"
    /\ UNCHANGED <<imgVars, progressVars, sweepVars, tiled, dones, tw>>

\* main(): tile_images(img1, img2, mask1, mask2, opts)
tile_images ==
    /\ pc = "tile"
    /\ tiled' = <<mask1, mask2>>
    /\ pc' = "done"
    /\ UNCHANGED <<imgVars, progressVars, sweepVars, mask1, mask2, dones, tw>>

Next ==
    \/ main_plain
    \/ best_diff_begin
    \/ best_diff_poll
    \/ best_diff_compare
    \/ simple_highlight_finish
    \/ slow_highlight_begin
    \/ slow_highlight_poll
    \/ slow_highlight_compare
    \/ slow_highlight_finish
    \/ tile_images

Spec == Init /\ [][Next]_vars

SpecPixels == InitPixels /\ [][Next]_vars

SpecStrips == InitStrips /\ [][Next]_vars

(***************************************************************************)
(* tweak_diff() on its own: every cell value against every lowest opacity. *)
(***************************************************************************)
InitTweak ==
    /\ img1 = None /\ img2 = None
    /\ opts = [highlight |-> "none", timeout |-> OptTimeoutDefault,
               opacity |-> OptOpacityDefault]
    /\ isatty = FALSE
    /\ pc = "tweak"
    /\ now = 0
    /\ p = NoProgress
    /\ stream = <<>>
    /\ outcome = "Running"
    /\ elapsed = 0
    /\ IdleSweep /\ IdleResult
    /\ dones = 0
    /\ tw \in [i : 0 .. 255, opacity : 0 .. 255, out : {-1}]

\* mask = tweak_diff(diff, opacity) for a one-cell difference map
tweak_apply ==
    /\ pc = "tweak"
    /\ tw.out = -1
    /\ tw' = [tw EXCEPT !.out = tweak_diff(ImageNew(1, 1, tw.i), tw.opacity).px[<<0, 0>>]]
    /\ UNCHANGED <<imgVars, pc, progressVars, sweepVars, resultVars, dones>>

NextTweak == tweak_apply

SpecTweak == InitTweak /\ [][NextTweak]_vars

(***************************************************************************)
(* Properties.                                                             *)
(***************************************************************************)
Highlighting == opts.highlight # "none" /\ pc # "main"

\* The k-th offset of the grid, x outer and y inner
GridOffset(k) == <<(k - 1) \div yr, (k - 1) % yr>>

\* The badness of the alignment at grid offset (xx, yy)
BadnessAt(xx, yy) ==
    LET pos == Alignment(xx, yy)
    IN diff_badness(diff(img1, img2, pos[1][1], pos[1][2], pos[2][1], pos[2][2]))

\* The two crops compared at grid offset (xx, yy) are pixel-identical
ExactMatchAt(xx, yy) ==
    LET pos == Alignment(xx, yy)
        w == Min2(img1.size[1], img2.size[1])
        h == Min2(img1.size[2], img2.size[2])
    IN \A c \in Cells(w, h) :
          img1.px[<<c[1] + pos[1][1], c[2] + pos[1][2]>>]
            = img2.px[<<c[1] + pos[2][1], c[2] + pos[2][2]>>]

\* C1: in both search modes a Timeout raised by p.next() makes the highlight
\* call return (None, None): no exception leaves it, no partial result is
\* returned, no comparison follows the poll that timed out, and main() tiles
\* the images with no masks.
C1_TimeoutReturnsNoMasks ==
    (Highlighting /\ outcome = "TimedOut") =>
        /\ pc \in {"tile", "done"}
        /\ mask1 = None /\ mask2 = None
        /\ Len(compared) = Len(polled) - 1
        /\ pc = "done" => tiled = <<None, None>>

C1_Witness ==
    /\ opts.highlight = "slow" /\ outcome = "TimedOut" /\ pc = "done"
    /\ Len(compared) >= 2
    /\ tiled = <<None, None>>

\* C2: the timeout supplied in opts.timeout governs the cancellation: with 0
\* the sweep is never cancelled, with a positive value the call returns none
\* at the first poll whose elapsed time exceeds it.
C2_SuppliedTimeoutGoverns ==
    (Highlighting /\ Len(polled) > 0) =>
        /\ opts.timeout = 0 => outcome # "TimedOut"
        /\ (opts.timeout > 0 /\ elapsed > opts.timeout) => outcome = "TimedOut"
        /\ (opts.timeout > 0 /\ outcome = "TimedOut") => elapsed > opts.timeout

\* C3: when best_diff returns, it returns a difference map and an alignment;
\* the badness of the alignment is the least over the grid, no offset before
\* it in iteration order (x outer, y inner) is as good, and the badness is 0
\* when the crops at some offset are pixel-identical.
C3_BestIsFirstMinimum ==
    pc = "simple_finish" =>
        /\ best # None /\ best_pos # <<>>
        /\ LET bx == best_pos[1][1] + best_pos[2][1]
               by == best_pos[1][2] + best_pos[2][2]
           IN /\ bx \in 0 .. xr - 1 /\ by \in 0 .. yr - 1
              /\ best_pos = Alignment(bx, by)
              /\ best_value = BadnessAt(bx, by)
              /\ best = diff(img1, img2, best_pos[1][1], best_pos[1][2],
                             best_pos[2][1], best_pos[2][2])
              /\ \A xx \in 0 .. xr - 1, yy \in 0 .. yr - 1 :
                    /\ BadnessAt(xx, yy) >= best_value
                    /\ BadnessAt(xx, yy) = best_value =>
                          (bx < xx \/ (bx = xx /\ by <= yy))
              /\ (\E xx \in 0 .. xr - 1, yy \in 0 .. yr - 1 : ExactMatchAt(xx, yy))
                    => best_value = 0

C3_Witness ==
    /\ pc = "simple_finish"
    /\ xr = 2 /\ yr = 2
    /\ best_pos = <<<<0, 1>>, <<0, 0>>>>
    /\ best_value = 0
    /\ BadnessAt(0, 0) > 0
    /\ BadnessAt(1, 0) = 0
    /\ ExactMatchAt(0, 1)

\* The percentages of the progress messages written so far never decrease
PercentagesAscend ==
    \A i \in 1 .. Len(stream), j \in 1 .. Len(stream) :
        (i < j /\ Len(stream[i]) = 4 /\ Len(stream[j]) = 4) =>
            stream[i][2] <= stream[j][2]

\* C4: a sweep enumerates (|w1-w2|+1) * (|h1-h2|+1) >= 1 offsets, which is the
\* Progress total; p.next() is called once per offset, in enumeration order
\* and before the offset's comparison, so that the position counts the
\* offsets started and the reported percentage never decreases.  An
\* uncancelled sweep has compared every offset when it ends.
C4_OneNextPerOffset ==
    Highlighting =>
        /\ p.total = (Abs(img1.size[1] - img2.size[1]) + 1)
                        * (Abs(img1.size[2] - img2.size[2]) + 1)
        /\ p.total >= 1
        /\ p.position = Len(polled)
        /\ Len(polled) <= p.total
        /\ \A k \in 1 .. Len(polled) : polled[k] = GridOffset(k)
        /\ Len(compared) \in {Len(polled) - 1, Len(polled)}
        /\ \A k \in 1 .. Len(compared) :
              compared[k] = IF opts.highlight = "simple"
                            THEN Alignment(polled[k][1], polled[k][2])
                            ELSE polled[k]
        /\ pc \in {"best_compare", "slow_compare"} =>
              Len(compared) = Len(polled) - 1
        /\ pc \in {"best_poll", "slow_poll"} => Len(compared) = Len(polled)
        /\ outcome # "TimedOut" =>
              ((pc \in {"simple_finish", "slow_finish", "tile", "done"})
                  <=> Len(compared) = p.total)
        /\ PercentagesAscend

C4_Witness ==
    /\ pc = "slow_finish"
    /\ img1.size = <<1, 1>> /\ img2.size = <<0, 0>>
    /\ Len(compared) = 4
    /\ isatty /\ Len(stream) >= 6

\* The overlap rectangle of the winning alignment, in the space of image n
InOverlap(c, n) ==
    /\ c[1] >= best_pos[n][1]
    /\ c[1] < best_pos[n][1] + Min2(img1.size[1], img2.size[1])
    /\ c[2] >= best_pos[n][2]
    /\ c[2] < best_pos[n][2] + Min2(img1.size[2], img2.size[2])

\* The value the mask of image n holds at cell c of the overlap: the largest
\* cell of the winning map within 4 cells of c, mapped to [opacity, 255]
OverlapValue(c, n) ==
    LET o == <<c[1] - best_pos[n][1], c[2] - best_pos[n][2]>>
        m == SetMax({best.px[e] : e \in {f \in DOMAIN best.px :
                                            /\ Abs(f[1] - o[1]) <= 4
                                            /\ Abs(f[2] - o[2]) <= 4}})
    IN opts.opacity + (m * (255 - opts.opacity)) \div 255

\* C5: in fast mode each mask has the size of its own image, is 0xFF outside
\* the overlap rectangle of the winning alignment, and holds the smoothed,
\* opacity-mapped winning difference map inside it.
C5_MasksOutsideOverlapOpaque ==
    (opts.highlight = "simple" /\ pc \in {"tile", "done"} /\ outcome = "Completed") =>
        /\ mask1.size = img1.size /\ mask2.size = img2.size
        /\ DOMAIN mask1.px = Cells(img1.size[1], img1.size[2])
        /\ DOMAIN mask2.px = Cells(img2.size[1], img2.size[2])
        /\ \A c \in DOMAIN mask1.px :
              mask1.px[c] = IF InOverlap(c, 1) THEN OverlapValue(c, 1) ELSE 255
        /\ \A c \in DOMAIN mask2.px :
              mask2.px[c] = IF InOverlap(c, 2) THEN OverlapValue(c, 2) ELSE 255

C5_Witness ==
    /\ opts.highlight = "simple" /\ pc = "done" /\ outcome = "Completed"
    /\ img1.size = <<2, 2>> /\ img2.size = <<1, 1>>
    /\ best_pos = <<<<1, 0>>, <<0, 0>>>>
    /\ opts.opacity = OptOpacityDefault
    /\ tiled[1].px = [c \in Cells(2, 2) |-> IF c = <<1, 0>> THEN 64 ELSE 255]
    /\ tiled[2].px = [c \in Cells(1, 1) |-> 64]

\* The per-channel difference of the two images has luminance 0 at every cell
LumaDifferenceZero ==
    \A c \in DOMAIN img1.px :
        Luma(<<Abs(img1.px[c][1] - img2.px[c][1]),
               Abs(img1.px[c][2] - img2.px[c][2]),
               Abs(img1.px[c][3] - img2.px[c][3])>>) = 0

\* C7 as stated: for images of equal size best_diff evaluates the single
\* offset ((0,0),(0,0)) and its badness is 0 if and only if the images are
\* pixel-identical.
C7_ZeroBadnessIffIdentical ==
    (pc = "simple_finish" /\ img1.size = img2.size) =>
        /\ compared = <<<<<<0, 0>>, <<0, 0>>>>>>
        /\ best_value = 0 <=> img1 = img2

\* C7, amended: for images of equal size best_diff evaluates the single
\* offset ((0,0),(0,0)); its badness is 0 if the images are pixel-identical,
\* and it is 0 exactly when the luminance of the per-channel difference is 0
\* at every pixel (which also holds for some images that differ).
C7_ZeroBadnessIffLumaZero ==
    (pc = "simple_finish" /\ img1.size = img2.size) =>
        /\ compared = <<<<<<0, 0>>, <<0, 0>>>>>>
        /\ best_pos = <<<<0, 0>>, <<0, 0>>>>
        /\ img1 = img2 => best_value = 0
        /\ best_value = 0 <=> LumaDifferenceZero

C7_Witness ==
    /\ pc = "simple_finish" /\ img1.size = img2.size
    /\ img1.size = <<2, 2>>
    /\ img1 # img2
    /\ best_value = 0

\* C6: tweak_diff maps the cell value v, for the lowest opacity floor, to
\* floor + v*(255-floor) div 255: the result lies in [floor, 255], 0 maps to
\* floor, 255 maps to 255, the map does not decrease in v, and for floor 0 it
\* is the identity.
C6_TweakRange ==
    tw.out # -1 =>
        /\ tw.out = tw.opacity + (tw.i * (255 - tw.opacity)) \div 255
        /\ tw.out >= tw.opacity /\ tw.out <= 255
        /\ tw.i = 0 => tw.out = tw.opacity
        /\ tw.i = 255 => tw.out = 255
        /\ \A v \in 0 .. tw.i : tweak_point(v, tw.opacity) <= tw.out
        /\ tw.opacity = 0 =>
              /\ tw.out = tw.i
              /\ tweak_point(tw.out, 0) = tw.out

C6_Witness ==
    /\ tw.i = 128 /\ tw.opacity = OptOpacityDefault
    /\ tw.out = 159

\* The number of newlines written to the stream
Newlines == Cardinality({k \in 1 .. Len(stream) : stream[k] = NL})
ProgressShown == \E k \in 1 .. Len(stream) : Len(stream[k]) = 4

\* C8: a Progress whose next() has been called total times without a timeout
\* is Completed; done() is reached from the call that makes position = total
\* and from no earlier one; the final newline is written if and only if some
\* progress output had been shown, and at most once however often done() is
\* called afterwards.
C8_CompletedOnTotal ==
    p.total >= 1 =>
        /\ (p.position = p.total /\ outcome # "TimedOut") => outcome = "Completed"
        /\ outcome = "Completed" => p.position = p.total
        /\ outcome = "Running" => Newlines = 0
        /\ outcome = "Completed" =>
              /\ Newlines <= 1
              /\ Newlines = 1 <=> ProgressShown
              /\ Newlines = 1 => stream[Len(stream)] = NL
              /\ ~p.shown

C8_Witness ==
    /\ pc = "test" /\ outcome = "Completed"
    /\ p.total = 3 /\ dones = 2
    /\ Newlines = 1
    /\ Len(stream) = 6

C10_NotATerminal ==
    (p.total >= 1 /\ ~p.isatty) =>
        /\ outcome # "TimedOut" => stream = <<>>
        /\ (outcome = "TimedOut" /\ dones = 0) => stream = <<TimeoutMsg(p)>>
        /\ (outcome = "TimedOut" /\ dones > 0) => stream = <<TimeoutMsg(p), NL>>

C10_Witness ==
    /\ pc = "test" /\ ~p.isatty
    /\ outcome = "TimedOut" /\ dones = 2
    /\ p.timeout = 1
    /\ stream = <<<<"Highlighting takes too long: timed out after %.0f seconds", 1>>, NL>>

\* The alignments best_diff has passed to diff() or is about to pass
PassedToDiff ==
    {compared[k] : k \in 1 .. Len(compared)}
        \cup (IF pc = "best_compare" THEN {Alignment(x, y)} ELSE {})

\* pos shifts at most one image on each axis, and only the larger one, by no
\* more than the difference of the sizes; both crops lie inside their image
AlignmentLegal(pos) ==
    LET w1 == img1.size[1]
        h1 == img1.size[2]
        w2 == img2.size[1]
        h2 == img2.size[2]
        w == Min2(w1, w2)
        h == Min2(h1, h2)
        x1 == pos[1][1]
        y1 == pos[1][2]
        x2 == pos[2][1]
        y2 == pos[2][2]
    IN /\ x1 = 0 \/ x2 = 0
       /\ y1 = 0 \/ y2 = 0
       /\ x1 # 0 => w1 > w2
       /\ x2 # 0 => w2 > w1
       /\ y1 # 0 => h1 > h2
       /\ y2 # 0 => h2 > h1
       /\ x1 >= 0 /\ x1 <= Abs(w1 - w2) /\ x2 >= 0 /\ x2 <= Abs(w1 - w2)
       /\ y1 >= 0 /\ y1 <= Abs(h1 - h2) /\ y2 >= 0 /\ y2 <= Abs(h1 - h2)
       /\ x1 + w <= w1 /\ y1 + h <= h1
       /\ x2 + w <= w2 /\ y2 + h <= h2

\* C11: every alignment ((x1,y1),(x2,y2)) best_diff passes to diff() has x1 = 0
\* or x2 = 0 and y1 = 0 or y2 = 0; a non-zero shift is applied only to the
\* image that is larger on that axis and is at most the difference of the
\* sizes; both crops are min(w1,w2) x min(h1,h2) and lie inside their image.
C11_AlignmentsLegal ==
    (opts.highlight = "simple" /\ pc # "main") =>
        /\ \A pos \in PassedToDiff : AlignmentLegal(pos)
        /\ best # None =>
              /\ best.size = <<Min2(img1.size[1], img2.size[1]),
                               Min2(img1.size[2], img2.size[2])>>
              /\ DOMAIN best.px = Cells(best.size[1], best.size[2])

C11_Witness ==
    /\ opts.highlight = "simple" /\ pc = "simple_finish"
    /\ img1.size = <<2, 1>> /\ img2.size = <<1, 2>>
    /\ Len(compared) = 4
    /\ compared[4] = <<<<1, 0>>, <<0, 1>>>>

\* The progress messages in the stream that the latest call of next() wrote
LatestReports ==
    {k \in 1 .. Len(stream) : Len(stream[k]) = 4 /\ stream[k][3] = p.position}

\* C12 as stated: next() writes a progress message (percentage = position*100
\* div total, position, total) only when the time elapsed since the start
\* exceeds the delay and units remain after the advance (position < total).
C12_ReportsOnlyWhileUnitsRemain ==
    p.total >= 1 =>
        \A k \in LatestReports :
            /\ stream[k] = ProgressMsg(p)
            /\ stream[k][2] = (p.position * 100) \div p.total
            /\ now - p.started > p.delay
            /\ p.position < p.total

\* C12, amended: next() writes a progress message (percentage = position*100
\* div total, position, total) only when the time elapsed since the start
\* exceeds the delay; on a terminal it writes one on every call that does not
\* time out and finds the delay exceeded, the last call (position = total,
\* 100%) included.
C12_ReportsWheneverDelayExceeded ==
    p.total >= 1 =>
        /\ \A k \in LatestReports :
              /\ stream[k] = ProgressMsg(p)
              /\ stream[k][2] = (p.position * 100) \div p.total
              /\ now - p.started > p.delay
              /\ p.position <= p.total
              /\ p.isatty
        /\ Cardinality(LatestReports) <= 1
        /\ (outcome # "TimedOut" /\ p.position >= 1 /\ p.isatty
                /\ now - p.started > p.delay) => LatestReports # {}

C12_Witness ==
    /\ pc = "test" /\ outcome = "Completed"
    /\ p.total = 3 /\ p.position = 3
    /\ stream = <<CR, <<"%d%% (%d out of %d %s)", 100, 3, 3>>, CR, NL>>

\* The canvas of image img when its content sits at (sx, sy), unwrapped
CanvasAt(img, sx, sy) ==
    ImagePaste(ImageNew(Max2(img1.size[1], img2.size[1]),
                        Max2(img1.size[2], img2.size[2]), BgColor), img, sx, sy)

\* The canvases that carry the shift along x and the shift along y
XCarrier == IF img1.size[1] > img2.size[1] THEN 2 ELSE 1
YCarrier == IF img1.size[2] > img2.size[2] THEN 2 ELSE 1

\* C13: in slow_highlight, when the comparison of grid step (x, y) is computed
\* the net shift along x is exactly x and is carried by one canvas, the net
\* shift along y is exactly y and is carried by one canvas, the other canvas
\* having shift 0 on that axis; the shift along y is 0 at the start of every
\* outer iteration; no shift exceeds the difference of the sizes on its axis,
\* so the shifted image lies wholly inside the canvas and nothing has wrapped.
C13_ShiftsFollowGrid ==
    (opts.highlight = "slow" /\ pc \in {"slow_poll", "slow_compare"}) =>
        /\ shift[XCarrier][1] = x /\ shift[3 - XCarrier][1] = 0
        /\ shift[YCarrier][2] = y /\ shift[3 - YCarrier][2] = 0
        /\ x <= Abs(img1.size[1] - img2.size[1])
        /\ y <= Abs(img1.size[2] - img2.size[2])
        /\ (pc = "slow_poll" /\ Len(polled) % yr = 0) =>
              (y = 0 /\ shift[1][2] = 0 /\ shift[2][2] = 0)
        /\ shift[1][1] + img1.size[1] <= pimg1.size[1]
        /\ shift[1][2] + img1.size[2] <= pimg1.size[2]
        /\ shift[2][1] + img2.size[1] <= pimg2.size[1]
        /\ shift[2][2] + img2.size[2] <= pimg2.size[2]
        /\ pimg1 = CanvasAt(img1, shift[1][1], shift[1][2])
        /\ pimg2 = CanvasAt(img2, shift[2][1], shift[2][2])

C13_Witness ==
    /\ opts.highlight = "slow" /\ pc = "slow_compare"
    /\ img1 = ImageNew(2, 1, Black) /\ img2 = ImageNew(1, 2, Black)
    /\ x = 1 /\ y = 1
    /\ shift = <<<<0, 1>>, <<1, 0>>>>
    /\ pimg1.px[<<0, 0>>] = White /\ pimg1.px[<<0, 1>>] = Black
    /\ pimg2.px[<<0, 0>>] = White /\ pimg2.px[<<1, 0>>] = Black

\* The smoothed full-canvas difference map of grid step (xx, yy), computed
\* from the two images placed on fresh canvases
SmoothedAt(xx, yy) ==
    LET c1 == CanvasAt(img1, IF XCarrier = 1 THEN xx ELSE 0,
                             IF YCarrier = 1 THEN yy ELSE 0)
        c2 == CanvasAt(img2, IF XCarrier = 2 THEN xx ELSE 0,
                             IF YCarrier = 2 THEN yy ELSE 0)
    IN MaxFilter(ConvertL(ChopsDifference(c1, c2)), 7)

SetMin(S) == CHOOSE m \in S : \A n \in S : m <= n

\* The accumulator is 255 before the first step and the cell-wise minimum of
\* the smoothed maps of the steps compared so far afterwards; after a whole
\* sweep these are the maps of all (|w1-w2|+1) * (|h1-h2|+1) offsets
AccumulatorIsMinimum ==
    (opts.highlight = "slow" /\ pc # "main") =>
        /\ acc.size = <<Max2(img1.size[1], img2.size[1]),
                        Max2(img1.size[2], img2.size[2])>>
        /\ DOMAIN acc.px = Cells(acc.size[1], acc.size[2])
        /\ \A c \in DOMAIN acc.px :
              acc.px[c] = SetMin({255} \cup
                    {SmoothedAt(compared[k][1], compared[k][2]).px[c] :
                        k \in 1 .. Len(compared)})
        /\ (pc \in {"slow_finish", "tile", "done"} /\ outcome # "TimedOut") =>
              /\ Len(compared) = (Abs(img1.size[1] - img2.size[1]) + 1)
                                    * (Abs(img1.size[2] - img2.size[2]) + 1)
              /\ {compared[k] : k \in 1 .. Len(compared)}
                    = (0 .. xr - 1) \X (0 .. yr - 1)

\* No cell of the accumulator increases in a step of the sweep
AccumulatorDescends ==
    (opts.highlight = "slow" /\ acc # None /\ acc' # None) =>
        \A c \in DOMAIN acc.px : acc'.px[c] <= acc.px[c]

\* C14: in slow_highlight the accumulator starts with every cell 255, no cell
\* of it ever increases during the sweep, after the k-th step it is the
\* cell-wise minimum of the k smoothed (7-pixel max-filtered) full-canvas
\* difference maps computed so far, and after the whole sweep it is the
\* minimum over all (|w1-w2|+1) * (|h1-h2|+1) offsets.
C14_AccumulatorIsRunningMinimum ==
    /\ []AccumulatorIsMinimum
    /\ [][AccumulatorDescends]_vars

C14_Witness ==
    /\ opts.highlight = "slow" /\ pc = "slow_finish"
    /\ img1 = ImageNew(5, 1, Black) /\ img2 = ImageNew(4, 1, Black)
    /\ Len(compared) = 2
    /\ SmoothedAt(0, 0).px = [c \in Cells(5, 1) |-> IF c[1] = 0 THEN 0 ELSE 255]
    /\ SmoothedAt(1, 0).px = [c \in Cells(5, 1) |-> IF c[1] = 4 THEN 0 ELSE 255]
    /\ acc.px = [c \in Cells(5, 1) |-> IF c[1] \in {0, 4} THEN 0 ELSE 255]

====
